---- MODULE Spec2Model ----
(***************************************************************************)
(* AVF Guardian (src/app.py): a Streamlit script.  Every script run calls  *)
(* load_models() (cached by st.cache_resource), draws the sidebar form and *)
(* - when the form was submitted - runs the scoring pipeline:              *)
(* winsorize + log1p, feature expansion, scaling, scoring, display and     *)
(* per-feature contributions.                                              *)
(*                                                                         *)
(* Numbers.  Floats are modelled in fixed point.  A float is a record      *)
(* [k, v]: k = "num" with the integer v, or k = "nan" / "-inf" / "inf".    *)
(* Raw inputs, IJVC, sex and winsorization bounds are whole numbers.  The  *)
(* log_ columns are in ten-thousandths (log1p to four decimals).  An       *)
(* interaction term is the product of its two columns, in the product of   *)
(* their units.  Scaler mean_ and scale_ are in the unit of their feature; *)
(* scaled values, contributions, the intercept and the linear predictor    *)
(* are in millionths; coefficients are whole numbers.  The probability is  *)
(* in thousandths.                                                         *)
(*                                                                         *)
(* Rounding.  The script computes in IEEE doubles; the fixed point differs *)
(* from them by less than 0.0004 in a contribution and 0.0006 in the       *)
(* linear predictor on the artifact sets below.  These sets are such that, *)
(* for every form value of the model, two contributions are either equal   *)
(* in doubles too or at least 0.001 apart, and the linear predictor is     *)
(* either 0 in doubles too or at least 0.02 away from every threshold the  *)
(* model compares it with, so that each comparison of the script comes out *)
(* in the model as it does in doubles.                                     *)
(***************************************************************************)
EXTENDS Integers, Sequences, FiniteSets, TLC

VARIABLES
    exists,      \* disk: exists[i] iff os.path.exists(paths[i])
    broken,      \* disk: the file of directory i that joblib.load cannot load ("none": all load)
    disk,        \* disk: what the artifact files hold
    cache,       \* st.cache_resource entry of load_models: <<>> or <<result>>
    loadExecs,   \* how many times the body of load_models has been executed
    reads,       \* joblib.load calls of the latest call of load_models: <<directory, file>>
    pc,          \* position of the script run
    artifacts,   \* model, scaler, winsor_limits, stats as bound at line 129
    input_data,  \* the submitted form values (line 181)
    df_input,    \* the log_ columns added to df_input (line 202)
    X_final,     \* the expanded feature frame: a sequence of [name, val]
    X_scaled,    \* scaler.transform(X_final)[0]
    prob,        \* model.predict_proba(X_scaled)[0, 1] and the linear predictor behind it
    shown,       \* what the run displayed: error, metric, badge, interpretation, chart
    df_contrib   \* the sorted contribution frame (lines 324-327)

vars == <<exists, broken, disk, cache, loadExecs, reads, pc, artifacts,
          input_data, df_input, X_final, X_scaled, prob, shown, df_contrib>>

env == <<exists, broken, disk>>
request == <<input_data, df_input, X_final, X_scaled, prob, shown, df_contrib>>

(***************************************************************************)
(* Bounds of the model.                                                    *)
(***************************************************************************)
\* load_models is executed at most MaxLoads times (reruns after st.stop()).
MaxLoads == 2

(***************************************************************************)
(* Floats.                                                                 *)
(***************************************************************************)
Num(n) == [k |-> "num", v |-> n]
NaN == [k |-> "nan", v |-> 0]
NegInf == [k |-> "-inf", v |-> 0]
PosInf == [k |-> "inf", v |-> 0]

IsNum(x) == x.k = "num"
IsNaN(x) == x.k = "nan"
IsInf(x) == x.k \in {"-inf", "inf"}

\* IEEE product, as numpy computes df_input[c1] * df_input[c2]
Mul(a, b) ==
    IF IsNaN(a) \/ IsNaN(b) THEN NaN
    ELSE IF IsNum(a) /\ IsNum(b) THEN Num(a.v * b.v)
    ELSE LET sa == IF IsNum(a) THEN (IF a.v > 0 THEN 1 ELSE IF a.v < 0 THEN -1 ELSE 0)
                   ELSE IF a.k = "inf" THEN 1 ELSE -1
             sb == IF IsNum(b) THEN (IF b.v > 0 THEN 1 ELSE IF b.v < 0 THEN -1 ELSE 0)
                   ELSE IF b.k = "inf" THEN 1 ELSE -1
         IN  IF sa * sb = 0 THEN NaN ELSE IF sa * sb > 0 THEN PosInf ELSE NegInf

\* ln(n) in ten-thousandths, n = 1..6
LnE4 == <<0, 6931, 10986, 13863, 16094, 17918>>

\* np.log1p under numpy's default error state: nan below -1 and -inf at -1,
\* each with a RuntimeWarning and no exception
log1p(x) ==
    IF x < -1 THEN NaN
    ELSE IF x = -1 THEN NegInf
    ELSE Num(LnE4[x + 1])

Max(a, b) == IF b > a THEN b ELSE a
Min(a, b) == IF b < a THEN b ELSE a
Abs(n) == IF n < 0 THEN -n ELSE n

(***************************************************************************)
(* Strings: str.strip() and str.lower() work on the characters.            *)
(***************************************************************************)
Chars ==
    [s \in {"MLR", "CRP", "triglycerides", "NLR", "crp", " mlr ", "Crp ", "nlr_"} |->
        CASE s = "MLR" -> <<"M", "L", "R">>
          [] s = "CRP" -> <<"C", "R", "P">>
          [] s = "triglycerides" ->
                <<"t", "r", "i", "g", "l", "y", "c", "e", "r", "i", "d", "e", "s">>
          [] s = "NLR" -> <<"N", "L", "R">>
          [] s = "crp" -> <<"c", "r", "p">>
          [] s = " mlr " -> <<" ", "m", "l", "r", " ">>
          [] s = "Crp " -> <<"C", "r", "p", " ">>
          [] s = "nlr_" -> <<"n", "l", "r", "_">>]

LowerChar(c) ==
    CASE c = "M" -> "m" [] c = "L" -> "l" [] c = "R" -> "r" [] c = "C" -> "c"
      [] c = "P" -> "p" [] c = "N" -> "n" [] OTHER -> c

lower(cs) == [i \in 1..Len(cs) |-> LowerChar(cs[i])]

RECURSIVE lstrip(_)
lstrip(cs) == IF cs # <<>> /\ Head(cs) = " " THEN lstrip(Tail(cs)) ELSE cs

RECURSIVE rstrip(_)
rstrip(cs) ==
    IF cs # <<>> /\ cs[Len(cs)] = " " THEN rstrip(SubSeq(cs, 1, Len(cs) - 1)) ELSE cs

strip(cs) == rstrip(lstrip(cs))

\* a slip: the comparison without .lower()
KeyMatchesCaseSensitive(k, col) == strip(Chars[k]) = strip(Chars[col])

\* k.strip().lower() == col.strip().lower()   (line 193)
KeyMatches(k, col) == lower(strip(Chars[k])) = lower(strip(Chars[col]))

(***************************************************************************)
(* 2. Load Artifacts                                                       *)
(***************************************************************************)
paths == <<"e:\\MLR\\Models", "Models", "../Models">>

\* a slip: the winsorization limits loaded in the inner, forgiving try
RequiredFilesWithoutLimits == <<"lr_model.pkl", "scaler.pkl">>

\* the joblib.load calls of the outer try, in order (lines 116-118)
RequiredFiles == <<"lr_model.pkl", "scaler.pkl", "winsor_limits.pkl">>
StatsFile == "data_stats.pkl"
FileNames == {"lr_model.pkl", "scaler.pkl", "winsor_limits.pkl", "data_stats.pkl"}

\* for p in paths: if os.path.exists(p): base_path = p; break   (0: None)
RECURSIVE FirstExisting(_, _)
FirstExisting(ex, i) ==
    IF i > Len(paths) THEN 0
    ELSE IF ex[i] THEN i
    ELSE FirstExisting(ex, i + 1)

\* a slip of the loop: no break, so the last existing candidate wins
RECURSIVE LastExisting(_, _)
LastExisting(ex, i) ==
    IF i = 0 THEN 0
    ELSE IF ex[i] THEN i
    ELSE LastExisting(ex, i - 1)

base_path_no_break(ex) == LastExisting(ex, Len(paths))

base_path(ex) == FirstExisting(ex, 1)

\* joblib.load(os.path.join(base_path, f)) raises
LoadFails(brk, d, f) == brk[d] = f

\* the required loads up to and including the first that raises
RECURSIVE RequiredReads(_, _, _)
RequiredReads(brk, d, i) ==
    IF i > Len(RequiredFiles) THEN <<>>
    ELSE IF LoadFails(brk, d, RequiredFiles[i]) THEN << <<d, RequiredFiles[i]>> >>
    ELSE << <<d, RequiredFiles[i]>> >> \o RequiredReads(brk, d, i + 1)

RequiredLoaded(brk, d) ==
    \A i \in 1..Len(RequiredFiles) : ~LoadFails(brk, d, RequiredFiles[i])

EmptyStats == [loaded |-> FALSE, dir |-> 0]
NoArtifacts == [dir |-> 0, model |-> <<>>, scaler |-> <<>>, winsor_limits |-> <<>>,
                stats |-> EmptyStats]

\* return model, scaler, winsor_limits, stats   (lines 116-124)
LoadResult(dsk, brk, d) ==
    [dir |-> d,
     model |-> <<dsk.model>>,
     scaler |-> <<dsk.scaler>>,
     winsor_limits |-> dsk.winsor_limits,
     stats |-> IF LoadFails(brk, d, StatsFile) THEN EmptyStats
               ELSE [loaded |-> TRUE, dir |-> d]]

(***************************************************************************)
(* 4.1 Preprocessing (lines 181-202)                                       *)
(***************************************************************************)
numeric_cols == <<"MLR", "CRP", "triglycerides", "NLR">>
core_feats == <<"log_MLR", "log_CRP", "log_triglycerides", "log_NLR", "IJVC", "sex">>

\* a one-row DataFrame: its columns in order, each [name, val]
HasCol(df, name) == \E i \in 1..Len(df) : df[i].name = name
Col(df, name) == df[CHOOSE i \in 1..Len(df) : df[i].name = name].val

\* df[name] = val: overwrite the column when it exists, append it otherwise
SetCol(df, name, val) ==
    IF HasCol(df, name)
    THEN [i \in 1..Len(df) |-> IF df[i].name = name THEN [name |-> name, val |-> val]
                               ELSE df[i]]
    ELSE Append(df, [name |-> name, val |-> val])

\* df_input = pd.DataFrame([input_data])   (lines 181-185)
InputFrame(inp) ==
    << [name |-> "MLR", val |-> Num(inp.MLR)],
       [name |-> "CRP", val |-> Num(inp.CRP)],
       [name |-> "triglycerides", val |-> Num(inp.triglycerides)],
       [name |-> "NLR", val |-> Num(inp.NLR)],
       [name |-> "IJVC", val |-> Num(inp.IJVC)],
       [name |-> "sex", val |-> Num(inp.sex)] >>

\* for k in winsor_limits: if k.strip().lower() == col.strip().lower(): ... break
\* (<<>>: limits stays None)
RECURSIVE FindLimits(_, _)
FindLimits(wl, col) ==
    IF wl = <<>> THEN <<>>
    ELSE IF KeyMatches(Head(wl).key, col) THEN <<Head(wl)>>
    ELSE FindLimits(Tail(wl), col)

\* val = max(limits['lower'], min(val, limits['upper']))   (line 199)
Clamp(limits, val) == Max(limits.lower, Min(val, limits.upper))

\* lines 191-202 for one column
ClampAndTransform(wl, col, val) ==
    LET limits == FindLimits(wl, col)
    IN  log1p(IF limits # <<>> THEN Clamp(limits[1], val) ELSE val)

\* the loop of lines 189-202 over numeric_cols[i..]
RECURSIVE WinsorizeLog(_, _, _)
WinsorizeLog(df, wl, i) ==
    IF i > Len(numeric_cols) THEN df
    ELSE LET col == numeric_cols[i]
         IN  WinsorizeLog(SetCol(df, "log_" \o col,
                                 ClampAndTransform(wl, col, Col(df, col).v)),
                          wl, i + 1)

(***************************************************************************)
(* Feature expansion (lines 205-216)                                       *)
(***************************************************************************)
\* itertools.combinations(range(i, n), 2) as index pairs, in emission order
RECURSIVE PairsFrom(_, _, _)
PairsFrom(i, j, n) ==
    IF i >= n THEN <<>>
    ELSE IF j > n THEN PairsFrom(i + 1, i + 2, n)
    ELSE << <<i, j>> >> \o PairsFrom(i, j + 1, n)

\* a slip: itertools.product instead of combinations, every ordered pair
AllPairs(n) ==
    [k \in 1..(n * n) |-> <<((k - 1) \div n) + 1, ((k - 1) % n) + 1>>]

combinations(n) == PairsFrom(1, 2, n)

\* for f in core_feats: X_final[f] = df_input[f]
RECURSIVE AddMainEffects(_, _, _)
AddMainEffects(X, df, i) ==
    IF i > Len(core_feats) THEN X
    ELSE AddMainEffects(SetCol(X, core_feats[i], Col(df, core_feats[i])), df, i + 1)

InteractionName(c1, c2) == c1 \o "*" \o c2

\* for c1, c2 in itertools.combinations(core_feats, 2):
\*     X_final[f"{c1}*{c2}"] = df_input[c1] * df_input[c2]
RECURSIVE AddInteractions(_, _, _)
AddInteractions(X, df, ps) ==
    IF ps = <<>> THEN X
    ELSE LET c1 == core_feats[Head(ps)[1]]
             c2 == core_feats[Head(ps)[2]]
         IN  AddInteractions(SetCol(X, InteractionName(c1, c2),
                                    Mul(Col(df, c1), Col(df, c2))),
                             df, Tail(ps))

Expand(df) ==
    AddInteractions(AddMainEffects(<<>>, df, 1), df, combinations(Len(core_feats)))

(***************************************************************************)
(* Scale and predict (lines 219-223): the fitted scaler and model          *)
(***************************************************************************)
Names(X) == [i \in 1..Len(X) |-> X[i].name]

Failure(msg) == [ok |-> FALSE, error |-> msg, val |-> <<>>]
Success(v) == [ok |-> TRUE, error |-> "", val |-> v]

\* a * 10^6 / b rounded down; the powers of ten b holds are cancelled first, which
\* keeps the quotient and stays within 32 bits
Millionths(a, b) ==
    IF b % 1000000 = 0 THEN a \div (b \div 1000000)
    ELSE IF b % 10000 = 0 THEN (a * 100) \div (b \div 10000)
    ELSE (a * 1000000) \div b

\* (x - mean_) / scale_, in millionths; nan stays nan
Standardize(x, mean, scale) ==
    IF IsNaN(x) THEN NaN ELSE Num(Millionths(x.v - mean, scale))

\* a slip: a scaler that standardizes as many columns as it has parameters for
ScalerTransformTruncating(sc, X) ==
    Success([i \in 1..Min(Len(X), Len(sc.mean_)) |->
                Standardize(X[i].val, sc.mean_[i], sc.scale_[i])])

\* scaler.transform(X_final): the input check lets nan through and refuses
\* infinities and a wrong number of features with a ValueError
ScalerTransform(sc, X) ==
    IF \E i \in 1..Len(X) : IsInf(X[i].val)
    THEN Failure("Input X contains infinity")
    ELSE IF Len(X) # Len(sc.mean_)
    THEN Failure("X has a different number of features than StandardScaler is expecting")
    ELSE Success([i \in 1..Len(X) |-> Standardize(X[i].val, sc.mean_[i], sc.scale_[i])])

RECURSIVE Dot(_, _, _)
Dot(coef, xs, i) ==
    IF i > Len(coef) THEN 0 ELSE coef[i] * xs[i].v + Dot(coef, xs, i + 1)

\* X @ coef_.T + intercept_
DecisionFunction(m, xs) == m.intercept_ + Dot(m.coef_, xs, 1)

\* logit(k/10) in millionths, rounded down, k = 1..9
Logit == <<-2197225, -1386295, -847298, -405466, 0, 405465, 847297, 1386294, 2197224>>

\* the logistic sigmoid in thousandths: exact at z = 0, else the middle of the
\* tenth the probability lies strictly inside
expit(z) ==
    IF z = 0 THEN 500
    ELSE 50 + 100 * Cardinality({k \in 1..9 : z > Logit[k]})

\* model.predict_proba(X_scaled)[0, 1]: the input check refuses nan, infinities
\* and a wrong number of features with a ValueError
PredictProba(m, xs) ==
    IF \E i \in 1..Len(xs) : ~IsNum(xs[i])
    THEN Failure("Input X contains NaN")
    ELSE IF Len(xs) # Len(m.coef_)
    THEN Failure("X has a different number of features than LogisticRegression is expecting")
    ELSE LET z == DecisionFunction(m, xs)
         IN  Success([z |-> z, p |-> expit(z)])

(***************************************************************************)
(* 4.2 Display Results (lines 232-293)                                     *)
(***************************************************************************)
\* Risk Level Badge (lines 236-241)
Badge(p) ==
    IF p < 200 THEN "LOW RISK"
    ELSE IF p < 500 THEN "MODERATE RISK"
    ELSE "HIGH RISK"

\* Clinical interpretation box (lines 262-293)
Interpretation(p) ==
    IF p > 500 THEN "High Risk Category"
    ELSE IF p > 200 THEN "Moderate Risk Category"
    ELSE "Low Risk Category"

(***************************************************************************)
(* 4.3 Interpretation (Contribution) (lines 300-324)                       *)
(***************************************************************************)
\* feature_names = model.feature_names_in_ if hasattr(...) else X_final.columns
feature_names(m, X) == IF m.has_names THEN m.feature_names_in_ ELSE Names(X)

\* readable_map.get(name, name)
readable_name(name) ==
    CASE name = "log_MLR" -> "MLR (Inflammation)"
      [] name = "log_CRP" -> "CRP (Inflammation)"
      [] name = "log_triglycerides" -> "Triglycerides (Lipids)"
      [] name = "log_NLR" -> "NLR (Inflammation)"
      [] name = "IJVC" -> "Hx of IJV Cannulation"
      [] name = "sex" -> "Sex"
      [] name = "log_MLR*log_CRP" -> "Interaction: MLR x CRP"
      [] name = "log_MLR*log_triglycerides" -> "Interaction: MLR x TG"
      [] name = "log_MLR*log_NLR" -> "Interaction: MLR x NLR"
      [] OTHER -> name

\* a slip: the loop run over readable_map, which names nine features
ZipLenReadable(names, coeffs, xs) == Min(9, Min(Len(names), Min(Len(coeffs), Len(xs))))

\* zip(feature_names, coeffs, X_scaled[0]) stops at the shortest of the three
ZipLen(names, coeffs, xs) == Min(Len(names), Min(Len(coeffs), Len(xs)))

\* the rows appended by the loop of lines 318-322; idx is the frame's index label
Contributions(names, coeffs, xs) ==
    [i \in 1..ZipLen(names, coeffs, xs) |->
        [idx |-> i, RiskFactor |-> readable_name(names[i]), Impact |-> coeffs[i] * xs[i].v]]

\* the rows of S whose key abs(Impact) is the largest
Largest(S) == {r \in S : \A q \in S : Abs(q.Impact) <= Abs(r.Impact)}

\* the rows of S by descending abs(Impact), rows of equal key in the order of
\* the frame they come from
RECURSIVE StableDesc(_)
StableDesc(S) ==
    IF S = {} THEN <<>>
    ELSE LET r == CHOOSE r \in Largest(S) : \A q \in Largest(S) : r.idx <= q.idx
         IN  <<r>> \o StableDesc(S \ {r})

\* every arrangement of the rows of S by descending abs(Impact): any row of the
\* largest key may come next
RECURSIVE AnyDesc(_)
AnyDesc(S) ==
    IF S = {} THEN {<<>>}
    ELSE UNION {{<<r>> \o t : t \in AnyDesc(S \ {r})} : r \in Largest(S)}

\* sort_values(by='Impact', ascending=False, key=abs, kind=kind).  Only
\* 'mergesort' and 'stable' keep rows of equal key in their original order.  With
\* 'quicksort' (the default, which line 324 uses) and 'heapsort' the order among
\* rows of equal key is whatever the sort of the numpy build leaves (the generic
\* introsort or a vectorized sort, chosen by the build and the CPU): any order of
\* them can come out.
sort_values(rows, kind) ==
    LET S == {rows[i] : i \in 1..Len(rows)}
    IN  IF kind \in {"mergesort", "stable"} THEN {StableDesc(S)} ELSE AnyDesc(S)

\* df_contrib['Type'] = df_contrib['Impact'].apply(...)   (line 327)
WithType(rows) ==
    [i \in 1..Len(rows) |->
        [idx |-> rows[i].idx, RiskFactor |-> rows[i].RiskFactor, Impact |-> rows[i].Impact,
         Type |-> IF rows[i].Impact > 0 THEN "Increases Risk" ELSE "Decreases Risk"]]

\* df_contrib.head(6)   (line 330)
head(rows, n) == SubSeq(rows, 1, Min(n, Len(rows)))

(***************************************************************************)
(* The artifact files and the form values the model runs on.               *)
(***************************************************************************)
\* the 21 column names of the training frame
TrainedNames ==
    core_feats \o [i \in 1..Len(combinations(Len(core_feats))) |->
                     InteractionName(core_feats[combinations(Len(core_feats))[i][1]],
                                     core_feats[combinations(Len(core_feats))[i][2]])]

\* the value 1.0 in the unit of feature i
FeatureUnit(i) ==
    LET u == <<10000, 10000, 10000, 10000, 1, 1>>
        ps == combinations(6)
    IN  IF i <= 6 THEN u[i]
        ELSE IF i <= 21 THEN u[ps[i - 6][1]] * u[ps[i - 6][2]]
        ELSE 1

\* a StandardScaler fitted on n features: every mean_ is `mean` and every scale_
\* is `scale` (whole numbers of the feature's 1.0)
FittedScaler(n, mean, scale) ==
    [mean_ |-> [i \in 1..n |-> mean * FeatureUnit(i)],
     scale_ |-> [i \in 1..n |-> scale * FeatureUnit(i)]]

\* the coefficient of feature i: -1, 2, -3, 4, ..., 0 for the features of `zeros`
Coefficient(i, zeros) == IF i \in zeros THEN 0 ELSE IF i % 2 = 1 THEN -i ELSE i

\* a LogisticRegression with n coefficients and intercept b; `named`: fitted on a
\* DataFrame, so that it has feature_names_in_
FittedModel(n, zeros, b, named) ==
    [coef_ |-> [i \in 1..n |-> Coefficient(i, zeros)],
     intercept_ |-> b,
     has_names |-> named,
     feature_names_in_ |-> IF named THEN SubSeq(TrainedNames, 1, Min(n, 21)) ELSE <<>>]

Limits(k, lo, up) == [key |-> k, lower |-> lo, upper |-> up]

WinsorExact ==
    <<Limits("MLR", 1, 3), Limits("CRP", 1, 3), Limits("triglycerides", 1, 3),
      Limits("NLR", 1, 3)>>
WinsorCase == <<Limits("crp", 0, 1), Limits(" mlr ", 0, 1), Limits("nlr_", 1, 3)>>
WinsorTwice == <<Limits("Crp ", 0, 1), Limits("CRP", 1, 3), Limits("MLR", 0, 3)>>
WinsorBelow == <<Limits("MLR", -3, -2), Limits("CRP", 1, 3)>>
WinsorMinusOne == <<Limits("NLR", -1, -1), Limits("CRP", 1, 3)>>

\* No feature value of the model equals 3.0 or 5.0, so with these means no scaled
\* value is 0 and the contributions that tie are those of the zero coefficients
\* and the few products that coincide.  The scales are powers of two: the scaled
\* value of a whole-numbered feature is exact in doubles as it is here.
\* Intercepts: -2.5, -6.0, 0.5.
Disks ==
    { [winsor_limits |-> WinsorExact, scaler |-> FittedScaler(21, 5, 16),
       model |-> FittedModel(21, {3, 4}, -2500000, FALSE)],
      [winsor_limits |-> WinsorCase, scaler |-> FittedScaler(21, 5, 16),
       model |-> FittedModel(21, {1, 5, 8}, -6000000, FALSE)],
      [winsor_limits |-> WinsorTwice, scaler |-> FittedScaler(21, 3, 4),
       model |-> FittedModel(21, {}, 500000, TRUE)],
      [winsor_limits |-> WinsorBelow, scaler |-> FittedScaler(21, 5, 16),
       model |-> FittedModel(21, {3, 4}, -2500000, FALSE)],
      [winsor_limits |-> WinsorMinusOne, scaler |-> FittedScaler(21, 5, 16),
       model |-> FittedModel(21, {3, 4}, -2500000, FALSE)],
      [winsor_limits |-> WinsorExact, scaler |-> FittedScaler(20, 5, 16),
       model |-> FittedModel(20, {3, 4}, -2500000, FALSE)],
      [winsor_limits |-> WinsorExact, scaler |-> FittedScaler(21, 5, 16),
       model |-> FittedModel(20, {3, 4}, -2500000, TRUE)],
      [winsor_limits |-> WinsorExact, scaler |-> FittedScaler(22, 5, 16),
       model |-> FittedModel(22, {3, 4}, -2500000, FALSE)] }

\* number_input values (min_value=0.0) and the selectbox options [1, 2]
RawValues == {0, 2}
Options == {1, 2}
Inputs ==
    [MLR : RawValues, CRP : RawValues, triglycerides : RawValues, NLR : RawValues,
     IJVC : Options, sex : Options]

(***************************************************************************)
(* The script as a state machine.                                          *)
(***************************************************************************)
NoInput == [MLR |-> 0, CRP |-> 0, triglycerides |-> 0, NLR |-> 0, IJVC |-> 0, sex |-> 0]
NoProb == [ok |-> FALSE, z |-> 0, p |-> 0]
\* metric: <<>> or <<the probability st.metric shows>>; chart: the rows of the bar chart
NothingShown ==
    [error |-> "", metric |-> <<>>, badge |-> "", text |-> "", chart |-> <<>>, info |-> ""]

\* the body of load_models (lines 98-127): st.error + st.stop() end the script run
load_models(ex, brk, dsk) ==
    LET d == base_path(ex)
    IN  IF d = 0
        THEN [ok |-> FALSE, reads |-> <<>>, result |-> NoArtifacts,
              error |-> "Model files not found! Please ensure 'Models' directory exists."]
        ELSE IF ~RequiredLoaded(brk, d)
        THEN [ok |-> FALSE, reads |-> RequiredReads(brk, d, 1), result |-> NoArtifacts,
              error |-> "Error loading model files"]
        ELSE [ok |-> TRUE, reads |-> RequiredReads(brk, d, 1) \o << <<d, StatsFile>> >>,
              result |-> LoadResult(dsk, brk, d), error |-> ""]

\* a slip: load_models without the decorator, nothing is kept
cache_nothing(r) == <<>>

\* @st.cache_resource: what the cache holds after load_models returned r
cache_resource(r) == <<r>>

Init ==
    /\ exists \in [1..Len(paths) -> BOOLEAN]
    /\ broken \in [1..Len(paths) -> {"none"} \cup FileNames]
    /\ \A i \in 1..Len(paths) : ~exists[i] => broken[i] = "none"
    \* at most one directory holds a file that does not load
    /\ Cardinality({i \in 1..Len(paths) : broken[i] # "none"}) <= 1
    /\ disk \in Disks
    /\ cache = <<>>
    /\ loadExecs = 0
    /\ reads = <<>>
    /\ pc = "start"
    /\ artifacts = NoArtifacts
    /\ input_data = NoInput
    /\ df_input = <<>>
    /\ X_final = <<>>
    /\ X_scaled = <<>>
    /\ prob = NoProb
    /\ shown = NothingShown
    /\ df_contrib = <<>>

\* line 129 when the cache holds the result: the body is not executed
LoadCached ==
    /\ pc = "start"
    /\ cache # <<>>
    /\ artifacts' = cache[1]
    /\ reads' = <<>>
    /\ pc' = "form"
    /\ UNCHANGED <<env, cache, loadExecs, request>>

\* line 129 when the cache is empty: the body runs; a result is cached, a stop is not
LoadExecuted ==
    /\ pc = "start"
    /\ cache = <<>>
    /\ loadExecs' = loadExecs + 1
    /\ LET r == load_models(exists, broken, disk)
       IN  /\ reads' = r.reads
           /\ \/ /\ r.ok
                 /\ cache' = cache_resource(r.result)
                 /\ artifacts' = r.result
                 /\ pc' = "form"
                 /\ shown' = shown
              \/ /\ ~r.ok
                 /\ shown' = [shown EXCEPT !.error = r.error]
                 /\ pc' = "stopped"
                 /\ UNCHANGED <<cache, artifacts>>
    /\ UNCHANGED <<env, input_data, df_input, X_final, X_scaled, prob, df_contrib>>

\* the form was not submitted (lines 347-349)
NoSubmit ==
    /\ pc = "form"
    /\ shown' = [shown EXCEPT !.info = "Please enter patient data"]
    /\ pc' = "done"
    /\ UNCHANGED <<env, cache, loadExecs, reads, artifacts,
                   input_data, df_input, X_final, X_scaled, prob, df_contrib>>

\* if submitted: 4.1 Preprocessing (lines 179-202)
Preprocess(inp) ==
    /\ pc = "form"
    /\ input_data' = inp
    /\ df_input' = WinsorizeLog(InputFrame(inp), artifacts.winsor_limits, 1)
    /\ pc' = "expand"
    /\ UNCHANGED <<env, cache, loadExecs, reads, artifacts,
                   X_final, X_scaled, prob, shown, df_contrib>>

\* Generate Features (lines 205-216)
GenerateFeatures ==
    /\ pc = "expand"
    /\ X_final' = Expand(df_input)
    /\ pc' = "predict"
    /\ UNCHANGED <<env, cache, loadExecs, reads, artifacts,
                   input_data, df_input, X_scaled, prob, shown, df_contrib>>

\* the exception scaler.transform or model.predict_proba raises for X_final ("": none)
Raised ==
    LET sc == ScalerTransform(artifacts.scaler[1], X_final)
    IN  IF ~sc.ok THEN sc.error ELSE PredictProba(artifacts.model[1], sc.val).error

\* Scale and Predict (lines 219-223); an exception goes to the except clause
ScaleAndPredict ==
    /\ pc = "predict"
    /\ LET sc == ScalerTransform(artifacts.scaler[1], X_final)
           pr == PredictProba(artifacts.model[1], sc.val)
       IN  \/ /\ ~sc.ok                       \* scaler.transform raises
              /\ pc' = "except"
              /\ UNCHANGED <<X_scaled, prob>>
           \/ /\ sc.ok /\ ~pr.ok              \* model.predict_proba raises
              /\ X_scaled' = sc.val
              /\ pc' = "except"
              /\ UNCHANGED prob
           \/ /\ sc.ok /\ pr.ok
              /\ X_scaled' = sc.val
              /\ prob' = [ok |-> TRUE, z |-> pr.val.z, p |-> pr.val.p]
              /\ pc' = "metric"
    /\ UNCHANGED <<env, cache, loadExecs, reads, artifacts,
                   input_data, df_input, X_final, shown, df_contrib>>

\* 4.2 Display Results: st.metric (lines 226-232)
ShowMetric ==
    /\ pc = "metric"
    /\ shown' = [shown EXCEPT !.metric = <<prob.p>>]
    /\ pc' = "badge"
    /\ UNCHANGED <<env, cache, loadExecs, reads, artifacts,
                   input_data, df_input, X_final, X_scaled, prob, df_contrib>>

\* Risk Level Badge (lines 234-241)
ShowBadge ==
    /\ pc = "badge"
    /\ shown' = [shown EXCEPT !.badge = Badge(prob.p)]
    /\ pc' = "text"
    /\ UNCHANGED <<env, cache, loadExecs, reads, artifacts,
                   input_data, df_input, X_final, X_scaled, prob, df_contrib>>

\* gauge and clinical interpretation (lines 243-293)
ShowInterpretation ==
    /\ pc = "text"
    /\ shown' = [shown EXCEPT !.text = Interpretation(prob.p)]
    /\ pc' = "explain"
    /\ UNCHANGED <<env, cache, loadExecs, reads, artifacts,
                   input_data, df_input, X_final, X_scaled, prob, df_contrib>>

\* 4.3 Interpretation (Contribution): the sorted frame (lines 296-327)
Explain ==
    /\ pc = "explain"
    /\ \E sorted \in sort_values(Contributions(feature_names(artifacts.model[1], X_final),
                                                artifacts.model[1].coef_, X_scaled),
                                  "quicksort") :
          df_contrib' = WithType(sorted)
    /\ pc' = "chart"
    /\ UNCHANGED <<env, cache, loadExecs, reads, artifacts,
                   input_data, df_input, X_final, X_scaled, prob, shown>>

\* the bar chart of the six largest contributions (lines 330-341)
ShowChart ==
    /\ pc = "chart"
    /\ shown' = [shown EXCEPT !.chart = head(df_contrib, 6)]
    /\ pc' = "done"
    /\ UNCHANGED <<env, cache, loadExecs, reads, artifacts,
                   input_data, df_input, X_final, X_scaled, prob, df_contrib>>

\* except Exception as e: st.error(f"Prediction Error: {e}")   (lines 343-344)
ExceptError ==
    /\ pc = "except"
    /\ shown' = [shown EXCEPT !.error = "Prediction Error: " \o Raised]
    /\ pc' = "debug"
    /\ UNCHANGED <<env, cache, loadExecs, reads, artifacts,
                   input_data, df_input, X_final, X_scaled, prob, df_contrib>>

\* st.write("Debug Info:", X_final)   (line 345)
ExceptDebug ==
    /\ pc = "debug"
    /\ shown' = [shown EXCEPT !.info = "Debug Info:"]
    /\ pc' = "done"
    /\ UNCHANGED <<env, cache, loadExecs, reads, artifacts,
                   input_data, df_input, X_final, X_scaled, prob, df_contrib>>

\* the positions whose next statements call st.*: lines 134-177 and 349, 226-232,
\* 237-241, 245-293, 296-298, 337-341, 344, 345
AtStCall == {"form", "metric", "badge", "text", "explain", "chart", "except", "debug"}

\* the state a new script run starts from: nothing of the last run is kept
NewRun ==
    /\ pc' = "start"
    /\ artifacts' = NoArtifacts
    /\ input_data' = NoInput
    /\ df_input' = <<>>
    /\ X_final' = <<>>
    /\ X_scaled' = <<>>
    /\ prob' = NoProb
    /\ shown' = NothingShown
    /\ df_contrib' = <<>>

\* an interaction while the script runs: the next st.* call raises Streamlit's
\* RerunException, which is no Exception and passes the except clause of line
\* 343; the run ends where it is and a new run starts
Interrupt ==
    /\ pc \in AtStCall
    /\ NewRun
    /\ UNCHANGED <<env, cache, loadExecs, reads>>

\* an interaction after the run has ended (or during lines 371-393, which show
\* fixed text): the script runs again from the top; the cache outlives the run
Rerun ==
    /\ pc \in {"done", "stopped"}
    /\ cache # <<>> \/ loadExecs < MaxLoads
    /\ NewRun
    /\ UNCHANGED <<env, cache, loadExecs, reads>>

Next ==
    \/ LoadCached
    \/ LoadExecuted
    \/ NoSubmit
    \/ \E inp \in Inputs : Preprocess(inp)
    \/ GenerateFeatures
    \/ ScaleAndPredict
    \/ ShowMetric
    \/ ShowBadge
    \/ ShowInterpretation
    \/ Explain
    \/ ShowChart
    \/ ExceptError
    \/ ExceptDebug
    \/ Interrupt
    \/ Rerun

Spec == Init /\ [][Next]_vars

(***************************************************************************)
(* Properties.                                                             *)
(***************************************************************************)
Existing == {i \in 1..Len(paths) : exists[i]}
Lowest == CHOOSE d \in Existing : \A j \in Existing : d <= j
AfterLoad == pc \notin {"start", "stopped"}

\* C1: load_models reads only from the lowest-indexed existing candidate
\* directory: every joblib.load of a call goes to it, starting with the model
\* file, the artifacts returned come from it, and no later candidate is read even
\* when that directory lacks a required file.
C1_FirstExistingCandidate ==
    /\ \A k \in 1..Len(reads) : reads[k][1] = Lowest
    /\ artifacts.dir # 0 => artifacts.dir = Lowest
    /\ cache # <<>> => cache[1].dir = Lowest
    /\ (Existing # {} /\ (pc = "stopped" \/ (AfterLoad /\ reads # <<>>)))
          => reads[1] = <<Lowest, "lr_model.pkl">>

\* the first candidate exists without a loadable scaler, the second is complete:
\* the load stopped after reading from the first only
C1_Witness ==
    /\ exists[1] /\ broken[1] = "scaler.pkl"
    /\ exists[2] /\ broken[2] = "none"
    /\ pc = "stopped"
    /\ reads = << <<1, "lr_model.pkl">>, <<1, "scaler.pkl">> >>

Fatal ==
    \/ Existing = {}
    \/ broken[Lowest] \in {"lr_model.pkl", "scaler.pkl", "winsor_limits.pkl"}

\* C2: a call of load_models ends in st.stop() exactly when no candidate
\* directory exists or the model, the scaler or the winsorization limits of the
\* selected directory fail to load.  A stopped run holds no artifacts, caches
\* nothing and serves no prediction; a run that goes on holds all three required
\* artifacts as the files hold them; missing descriptive statistics only leave
\* stats empty.
C2_FatalExactlyWhenRequiredMissing ==
    /\ pc = "stopped" => /\ Fatal
                         /\ shown.error # ""
                         /\ artifacts = NoArtifacts /\ cache = <<>>
                         /\ X_final = <<>> /\ ~prob.ok /\ df_contrib = <<>>
    /\ AfterLoad => /\ ~Fatal
                    /\ artifacts.model = <<disk.model>>
                    /\ artifacts.scaler = <<disk.scaler>>
                    /\ artifacts.winsor_limits = disk.winsor_limits
                    /\ artifacts.stats.loaded <=> broken[Lowest] # "data_stats.pkl"
    /\ Fatal => ~prob.ok /\ df_input = <<>> /\ X_final = <<>> /\ cache = <<>>

\* the selected directory holds model and scaler, its limits file does not load
C2_Witness ==
    /\ pc = "stopped"
    /\ Existing # {} /\ broken[Lowest] = "winsor_limits.pkl"
    /\ Len(reads) = 3
    /\ shown.error = "Error loading model files"

C3_Held ==
    /\ cache # <<>> => loadExecs = 1 /\ cache[1] = LoadResult(disk, broken, Lowest)
    /\ AfterLoad => cache # <<>> /\ artifacts = cache[1]

C3_Step ==
    cache # <<>> => /\ cache' = cache
                    /\ loadExecs' = loadExecs
                    /\ reads' \in {reads, <<>>}
                    /\ pc = "start" => reads' = <<>>
                    /\ artifacts' \in {cache[1], NoArtifacts}
                    /\ disk' = disk

\* C3: once load_models has succeeded its body has run exactly once; no later
\* step (rerun, cached call, preprocessing, expansion, scaling, scoring,
\* explanation) reads the disk again or changes the cached artifacts, and every
\* run past line 129 holds exactly the values that load returned.
C3_LoadedOnceReadOnly == [](C3_Held) /\ [][C3_Step]_vars

\* a second run, served from the cache without a read, has scored a request
C3_Witness ==
    /\ pc = "done" /\ prob.ok
    /\ cache # <<>> /\ reads = <<>> /\ loadExecs = 1

\* what trimming and lowercasing leaves of each key the limits files use
Trimmed(k) ==
    CASE k = "MLR" -> "mlr" [] k = " mlr " -> "mlr"
      [] k = "CRP" -> "crp" [] k = "crp" -> "crp" [] k = "Crp " -> "crp"
      [] k = "NLR" -> "nlr" [] k = "nlr_" -> "nlr_"
      [] k = "triglycerides" -> "triglycerides"

\* a request of this run has passed line 202
Preprocessed == df_input # <<>>

\* the limits entries whose key is the variable's name up to case and blanks
MatchingEntries(col) ==
    {i \in 1..Len(disk.winsor_limits) : Trimmed(disk.winsor_limits[i].key) = Trimmed(col)}

FirstMatch(col) ==
    disk.winsor_limits[CHOOSE i \in MatchingEntries(col) : \A j \in MatchingEntries(col) : i <= j]

C4_Column(col) ==
    LET v == input_data[col]
        out == Col(df_input, "log_" \o col)
    IN  IF MatchingEntries(col) = {}
        THEN out = log1p(v)
        ELSE LET lo == FirstMatch(col).lower
                 up == FirstMatch(col).upper
             IN  /\ out = log1p(IF v < up THEN (IF lo > v THEN lo ELSE v)
                                ELSE (IF lo > up THEN lo ELSE up))
                 /\ lo <= up => /\ v < lo => out = log1p(lo)
                                /\ v > up => out = log1p(up)
                                /\ (lo <= v /\ v <= up) => out = log1p(v)

\* C4: after preprocessing, each of log_MLR, log_CRP, log_triglycerides and
\* log_NLR is log1p(max(lower, min(v, upper))) with the bounds of the first
\* limits key equal to the variable's name after trimming and lowercasing, that
\* is log1p(lower) below the bounds, log1p(upper) above them and log1p(v) inside;
\* with no such key it is log1p(v).  IJVC and sex are the submitted values.
C4_ClampAndTransform ==
    Preprocessed =>
        /\ \A col \in {"MLR", "CRP", "triglycerides", "NLR"} : C4_Column(col)
        /\ Col(df_input, "IJVC") = Num(input_data.IJVC)
        /\ Col(df_input, "sex") = Num(input_data.sex)
        /\ X_final # <<>> => /\ Col(X_final, "IJVC") = Num(input_data.IJVC)
                             /\ Col(X_final, "sex") = Num(input_data.sex)

\* limits keyed "crp" clamp CRP = 2 to the upper bound 1, limits keyed " mlr "
\* leave MLR = 0 inside, and NLR = 2, which no key matches, is not clamped
C4_Witness ==
    /\ Preprocessed
    /\ disk.winsor_limits = WinsorCase
    /\ input_data.CRP = 2 /\ Col(df_input, "log_CRP") = Num(6931)
    /\ input_data.MLR = 0 /\ Col(df_input, "log_MLR") = Num(0)
    /\ input_data.NLR = 2 /\ Col(df_input, "log_NLR") = Num(10986)

\* a request of this run has passed line 216
Expanded == X_final # <<>>

\* the canonical feature order: main effects, then pairs in nested-loop order
CanonicalNames ==
    <<"log_MLR", "log_CRP", "log_triglycerides", "log_NLR", "IJVC", "sex",
      "log_MLR*log_CRP", "log_MLR*log_triglycerides", "log_MLR*log_NLR",
      "log_MLR*IJVC", "log_MLR*sex",
      "log_CRP*log_triglycerides", "log_CRP*log_NLR", "log_CRP*IJVC", "log_CRP*sex",
      "log_triglycerides*log_NLR", "log_triglycerides*IJVC", "log_triglycerides*sex",
      "log_NLR*IJVC", "log_NLR*sex",
      "IJVC*sex">>

\* the two main effects an interaction column is the product of
Factors ==
    <<<<1, 2>>, <<1, 3>>, <<1, 4>>, <<1, 5>>, <<1, 6>>, <<2, 3>>, <<2, 4>>, <<2, 5>>,
      <<2, 6>>, <<3, 4>>, <<3, 5>>, <<3, 6>>, <<4, 5>>, <<4, 6>>, <<5, 6>>>>

\* C5: on every request the expanded frame has exactly 21 columns with pairwise
\* distinct names in the canonical order: the six main effects as preprocessing
\* left them, then the 15 pair products in nested-loop order, the column "a*b"
\* holding the product of the main effects a and b.
C5_TwentyOneFeatures ==
    Expanded =>
        /\ Len(X_final) = 21
        /\ \A i, j \in 1..Len(X_final) : X_final[i].name = X_final[j].name => i = j
        /\ Names(X_final) = CanonicalNames
        /\ \A i \in 1..6 : X_final[i].val = Col(df_input, CanonicalNames[i])
        /\ \A k \in 1..15 :
             /\ X_final[6 + k].name =
                   X_final[Factors[k][1]].name \o "*" \o X_final[Factors[k][2]].name
             /\ X_final[6 + k].val = Mul(X_final[Factors[k][1]].val, X_final[Factors[k][2]].val)

\* a request whose products are all different from zero
C5_Witness ==
    /\ Expanded
    /\ X_final[7].val = Num(6931 * 10986)
    /\ X_final[20].val = Num(10986 * 2)
    /\ X_final[21].val = Num(2)

\* the value np.log1p is called with for a numeric column (line 202)
Log1pArgument(col) ==
    LET limits == FindLimits(artifacts.winsor_limits, col)
    IN  IF limits # <<>> THEN Clamp(limits[1], input_data[col]) ELSE input_data[col]

BelowDomain == \E col \in {"MLR", "CRP", "triglycerides", "NLR"} : Log1pArgument(col) < -1

\* C6: when a value below -1 reaches log1p the request fails with an error shown
\* to the user, no nan enters expansion, scaling or scoring, and no probability
\* is reported.
C6_DomainErrorSurfaced ==
    (Preprocessed /\ BelowDomain) =>
        /\ \A i \in 1..Len(X_final) : ~IsNaN(X_final[i].val)
        /\ \A i \in 1..Len(X_scaled) : ~IsNaN(X_scaled[i])
        /\ ~prob.ok
        /\ pc = "done" => shown.error # ""

ShapeMismatch ==
    \/ Len(X_final) # Len(artifacts.scaler[1].mean_)
    \/ Len(X_final) # Len(artifacts.model[1].coef_)

\* the request of this run has raised in the try block
Failed == pc \in {"except", "debug"} \/ (pc = "done" /\ shown.error # "")

C7_Step ==
    /\ pc = "except" => pc' \in {"debug", "start"}
    /\ pc = "debug" => pc' \in {"done", "start"}
    /\ Failed =>
          /\ pc' \notin {"predict", "metric", "badge", "text", "explain", "chart"}
          /\ ~prob'.ok /\ X_scaled' \in {X_scaled, <<>>} /\ df_contrib' = <<>>
          /\ shown'.metric = <<>> /\ shown'.badge = "" /\ shown'.text = ""

C7_State ==
    /\ (Expanded /\ ShapeMismatch) =>
          /\ pc \in {"predict", "except", "debug", "done"}
          /\ ~prob.ok /\ df_contrib = <<>>
          /\ shown.metric = <<>> /\ shown.badge = "" /\ shown.text = "" /\ shown.chart = <<>>
          /\ pc = "done" => shown.error # ""
    /\ X_scaled # <<>> => /\ Len(X_scaled) = Len(X_final)
                          /\ Len(X_scaled) = Len(artifacts.scaler[1].mean_)
    /\ prob.ok => /\ Len(X_scaled) = Len(X_final)
                  /\ Len(X_scaled) = Len(artifacts.model[1].coef_)
    /\ df_contrib # <<>> => /\ Len(df_contrib) = Len(X_final)
                            /\ Len(df_contrib) = Len(artifacts.model[1].coef_)
                            /\ Len(df_contrib) = Len(X_scaled)

\* C7: a request whose feature vector differs in length from the scaler's
\* parameters or the model's coefficients raises in the try block and, when the
\* run is not cut short, ends with an error shown; it has no probability, metric,
\* badge, interpretation or contribution list; once a request has raised, the
\* run goes through the except clause only and nothing scores the request again
\* before the next script run; and whatever is computed has the full length: a
\* scaled vector as long as the feature vector and the scaler's parameters, a
\* scored vector as long as the coefficients, a contribution list as long as the
\* feature vector and the coefficients.
C7_ShapeErrorSurfaced == [](C7_State) /\ [][C7_Step]_vars

\* a 21-column request against a scaler fitted on 20 features has ended in an error
C7_Witness ==
    /\ pc = "done" /\ Len(X_final) = 21
    /\ Len(artifacts.scaler[1].mean_) = 20
    /\ shown.error # "" /\ shown.info = "Debug Info:" /\ X_scaled = <<>>

RECURSIVE SumImpact(_)
SumImpact(rows) == IF rows = <<>> THEN 0 ELSE Head(rows).Impact + SumImpact(Tail(rows))

\* the explainer of this run has built its list (line 327)
Explained == pc \in {"chart", "done"} /\ prob.ok

\* C8: after a successful prediction the contribution list has one row per
\* feature, the row of feature i holds coefficient[i] * scaled[i], and the sum of
\* all rows plus the intercept is the linear predictor whose sigmoid is the
\* probability shown.
C8_ContributionsSumToPredictor ==
    /\ Explained =>
          /\ \A i \in 1..Len(artifacts.model[1].coef_) :
                \E k \in 1..Len(df_contrib) :
                   /\ df_contrib[k].idx = i
                   /\ df_contrib[k].Impact = artifacts.model[1].coef_[i] * X_scaled[i].v
          /\ Len(df_contrib) = Len(artifacts.model[1].coef_)
          /\ SumImpact(df_contrib) + artifacts.model[1].intercept_ = prob.z
    /\ prob.ok => prob.p = expit(prob.z)
    /\ shown.metric # <<>> => prob.ok /\ shown.metric = <<prob.p>>

\* a prediction with contributions of both signs, one of them from the last feature
C8_Witness ==
    /\ Explained /\ pc = "done"
    /\ \E k \in 1..Len(df_contrib) : df_contrib[k].idx = 21 /\ df_contrib[k].Impact > 0
    /\ \E k \in 1..Len(df_contrib) : df_contrib[k].Impact < 0
    /\ prob.z # artifacts.model[1].intercept_

\* C9: the contribution list is sorted by descending absolute contribution and
\* rows of equal absolute contribution keep their original feature order.
C9_SortedStable ==
    \A i, j \in 1..Len(df_contrib) :
        i < j => \/ Abs(df_contrib[i].Impact) > Abs(df_contrib[j].Impact)
                 \/ /\ Abs(df_contrib[i].Impact) = Abs(df_contrib[j].Impact)
                    /\ df_contrib[i].idx < df_contrib[j].idx

RiskCategory(label) ==
    CASE label \in {"LOW RISK", "Low Risk Category"} -> "low"
      [] label \in {"MODERATE RISK", "Moderate Risk Category"} -> "moderate"
      [] label \in {"HIGH RISK", "High Risk Category"} -> "high"

\* C10: the risk badge and the clinical interpretation shown for a successful
\* prediction name the same risk category.
C10_BadgeMatchesInterpretation ==
    (prob.ok /\ shown.badge # "" /\ shown.text # "") =>
        RiskCategory(shown.badge) = RiskCategory(shown.text)

====
